---------------------------- MODULE Spec2Model ----------------------------
(***************************************************************************)
(* Model of the two programs of the repository:                            *)
(*   docker/bedrock-gateway/app.py  the chat/completions gateway handler   *)
(*   docker/open-webui/init.py      the database wait-and-seed script      *)
(* Text is a sequence of one-character strings, so that joining and        *)
(* formatting are real operations on characters.  Temperatures are in      *)
(* tenths (7 is 0.7).                                                      *)
(***************************************************************************)
EXTENDS Integers, Sequences, FiniteSets, TLC

VARIABLES
    \* ---- gateway (app.py), one entry per inbound request
    pc,         \* position of the request in the handler
    request,    \* the raw JSON body received, <<>> or <<body>>
    parsed,     \* the ChatRequest pydantic built, <<>> or <<ChatRequest>>
    calls,      \* the bedrock.invoke_model calls made for the request
    arrived,    \* chunks of the backend response body read so far
    result,     \* the decoded backend payload, <<>> or <<payload>>
    sent,       \* what the caller has been sent for the request
    \* ---- prompt construction alone (app.py line 24)
    history,    \* the messages of a ChatRequest
    built,      \* <<>> or <<the backend request built from history>>
    \* ---- init.py
    run,        \* number of the current run of main
    mpc,        \* position of main
    env,        \* the environment of the current run
    retry_count,\* wait_for_db's retry_count
    attempts,   \* psycopg2.connect calls made by this run's wait_for_db
    waited,     \* how this run's wait_for_db ended
    cursor,     \* progress of init_database's loops
    tx,         \* the tables as the open transaction sees them
    store,      \* the committed tables
    inserted,   \* rows inserted by the current run
    log         \* one entry per finished run of main

gatewayVars == <<pc, request, parsed, calls, arrived, result, sent>>
promptVars  == <<history, built>>
initVars    == <<run, mpc, env, retry_count, attempts, waited, cursor, tx, store, inserted, log>>
vars == <<pc, request, parsed, calls, arrived, result, sent, history, built,
          run, mpc, env, retry_count, attempts, waited, cursor, tx, store,
          inserted, log>>

-----------------------------------------------------------------------------
(* Bounds *)

MaxReqs == 2
MaxMsgs == 2
MaxChunks == 3
MaxRuns == 3

Reqs == 1..MaxReqs

-----------------------------------------------------------------------------
(* Text *)

RoleUser      == <<"u", "s", "e", "r">>
RoleAssistant == <<"a", "s", "s", "i", "s", "t", "a", "n", "t">>
RoleTool      == <<"t", "o", "o", "l">>

\* str.join (app.py line 24)
RECURSIVE Join(_, _)
Join(sep, parts) ==
    IF parts = <<>> THEN <<>>
    ELSE IF Len(parts) = 1 THEN parts[1]
    ELSE parts[1] \o sep \o Join(sep, Tail(parts))

\* f"{msg.role}: {msg.content}" (app.py line 24)
FormatMessage(msg) == msg.role \o <<":", " ">> \o msg.content

\* Mutant: only the latest message is sent
PromptOfLastOnly(messages) ==
    IF messages = <<>> THEN <<>> ELSE FormatMessage(messages[Len(messages)])

\* prompt = "\n".join([... for msg in request.messages]) (app.py line 24)
PromptOf(messages) ==
    Join(<<"\n">>, [i \in 1..Len(messages) |-> FormatMessage(messages[i])])

\* dict.get(key, default)
Get(d, k, default) == IF k \in DOMAIN d THEN d[k] ELSE default

\* All sequences over S of length at most n
SeqsUpTo(S, n) == UNION {[1..k -> S] : k \in 0..n}

-----------------------------------------------------------------------------
(* Gateway: docker/bedrock-gateway/app.py *)

SonnetId  == "anthropic.claude-3-sonnet-20240229-v1:0"
UnknownId == "unknown-model-xyz"

\* The model identifiers the backend serves: the seeded catalog (init.py)
BackendModels ==
    { "anthropic.claude-3-opus-20240229-v1:0",
      "anthropic.claude-3-sonnet-20240229-v1:0",
      "anthropic.claude-3-haiku-20240307-v1:0",
      "meta.llama2-70b-chat-v1",
      "mistral.mistral-7b-instruct-v0:2" }

DefaultTemperature == 7
DefaultMaxTokens == 1000

\* Inputs: the JSON bodies a client may post.  A key may be absent.  Each
\* body is a well-formed one (a model and one user message) changed in at
\* most one place.
ModelIds     == {SonnetId, UnknownId}
UserHi       == [role |-> RoleUser, content |-> <<"h", "i">>]
ToolX        == [role |-> RoleTool, content |-> <<"x">>]
OptionalKeys == {"temperature", "max_tokens", "stream"}

Payload(m, K, ms) ==
    [k \in ({"model"} \cup K) |->
        CASE k = "model"       -> m
          [] k = "messages"    -> ms
          [] k = "temperature" -> 25
          [] k = "max_tokens"  -> 0
          [] k = "stream"      -> TRUE ]

RawPayloads ==
    {Payload(m, {"messages"}, ms) :
        m \in ModelIds, ms \in {<<>>, <<UserHi>>, <<ToolX>>}}
    \cup {Payload(m, {"messages", k}, <<UserHi>>) :
        m \in ModelIds, k \in OptionalKeys}
    \cup {Payload(m, {}, <<>>) : m \in ModelIds}

\* What the backend may answer with: a JSON object with the backend's own
\* stop reason and, usually, a completion.
StopReasons == {"end_turn", "max_tokens", "mystery"}
BackendPayloads ==
    UNION { { [k \in K |-> IF k = "completion" THEN <<"H", "i">> ELSE sr] :
              sr \in StopReasons } :
            K \in {{"stop_reason"}, {"stop_reason", "completion"}} }

\* Exceptions bedrock.invoke_model may raise
InvokeExceptions(modelId) ==
    IF modelId \in BackendModels
    THEN {"ReadTimeoutError", "ClientError"}
    ELSE {"ClientError"}

\* class ChatRequest(BaseModel): model and messages are required; role and
\* content are any str, temperature any float, max_tokens any int.
WellTyped(raw) == {"model", "messages"} \subseteq DOMAIN raw

\* pydantic's construction of ChatRequest: defaults filled in, keys that are
\* no field of the class (stream) ignored.
ParseChatRequest(raw) ==
    [ model       |-> raw["model"],
      messages    |-> raw["messages"],
      temperature |-> Get(raw, "temperature", DefaultTemperature),
      max_tokens  |-> Get(raw, "max_tokens", DefaultMaxTokens) ]

\* Mutant: an identifier the backend does not serve is replaced by a default
BackendRequestDefaulting(req) ==
    [ modelId |-> IF req.model \in BackendModels THEN req.model ELSE SonnetId,
      body    |-> [ prompt               |-> PromptOf(req.messages),
                    max_tokens_to_sample |-> req.max_tokens,
                    temperature          |-> req.temperature ] ]

\* The arguments of bedrock.invoke_model (app.py lines 26-33)
BackendRequest(req) ==
    [ modelId |-> req.model,
      body    |-> [ prompt               |-> PromptOf(req.messages),
                    max_tokens_to_sample |-> req.max_tokens,
                    temperature          |-> req.temperature ] ]

\* The dict the handler returns (app.py lines 38-47)
ChatResponse(req, res) ==
    [ choices |-> << [ message       |-> [ role    |-> RoleAssistant,
                                           content |-> Get(res, "completion", <<>>) ],
                       finish_reason |-> "stop" ] >>,
      model   |-> req.model ]

\* The handler's except clause: its body is not in the source; the failure
\* is classified (spec section 7) and rendered as the error envelope.
ExceptHandler(exc) ==
    [ type |-> "GatewayError",
      body |-> [ kind |-> CASE exc = "ReadTimeoutError"  -> "TransportError"
                            [] exc = "ClientError"       -> "ProtocolError"
                            [] exc = "IncompleteRead"    -> "StreamInterruptedError"
                            [] OTHER                     -> "InternalError",
                 retriable |-> exc = "ReadTimeoutError" ] ]

\* A gateway step leaves the other programs alone
GatewayFrame == UNCHANGED <<history, built, run, mpc, env, retry_count,
                            attempts, waited, cursor, tx, store, inserted, log>>

GatewayInit ==
    /\ pc      = [r \in Reqs |-> "Idle"]
    /\ request = [r \in Reqs |-> <<>>]
    /\ parsed  = [r \in Reqs |-> <<>>]
    /\ calls   = [r \in Reqs |-> <<>>]
    /\ arrived = [r \in Reqs |-> 0]
    /\ result  = [r \in Reqs |-> <<>>]
    /\ sent    = [r \in Reqs |-> <<>>]

\* A client posts a body to /v1/chat/completions
Receive(r) ==
    /\ pc[r] = "Idle"
    /\ \E raw \in RawPayloads : request' = [request EXCEPT ![r] = <<raw>>]
    /\ pc' = [pc EXCEPT ![r] = "Received"]
    /\ UNCHANGED <<parsed, calls, arrived, result, sent>>
    /\ GatewayFrame

\* FastAPI builds the ChatRequest argument of the handler
ValidateOk(r) ==
    /\ pc[r] = "Received"
    /\ WellTyped(request[r][1])
    /\ parsed' = [parsed EXCEPT ![r] = <<ParseChatRequest(request[r][1])>>]
    /\ pc' = [pc EXCEPT ![r] = "Validated"]
    /\ UNCHANGED <<request, calls, arrived, result, sent>>
    /\ GatewayFrame

\* ... or answers 422 without calling the handler
ValidateFail(r) ==
    /\ pc[r] = "Received"
    /\ ~WellTyped(request[r][1])
    /\ sent' = [sent EXCEPT ![r] =
                  <<[type |-> "GatewayError",
                     body |-> [kind |-> "ValidationError", retriable |-> FALSE]]>>]
    /\ pc' = [pc EXCEPT ![r] = "Failed"]
    /\ UNCHANGED <<request, parsed, calls, arrived, result>>
    /\ GatewayFrame

\* Mutant: a request whose backend call failed calls the backend again
InvokeModelRetrying(r) ==
    /\ \/ pc[r] = "Validated"
       \/ pc[r] = "Failed" /\ calls[r] # <<>>
    /\ calls' = [calls EXCEPT ![r] = Append(@, BackendRequest(parsed[r][1]))]
    /\ pc' = [pc EXCEPT ![r] = "Invoking"]
    /\ UNCHANGED <<request, parsed, arrived, result, sent>>
    /\ GatewayFrame

\* chat_completion, lines 24-33: build the prompt and call the backend
InvokeModel(r) ==
    /\ pc[r] = "Validated"
    /\ calls' = [calls EXCEPT ![r] = Append(@, BackendRequest(parsed[r][1]))]
    /\ pc' = [pc EXCEPT ![r] = "Invoking"]
    /\ UNCHANGED <<request, parsed, arrived, result, sent>>
    /\ GatewayFrame

\* bedrock.invoke_model raises; the except clause ends the request
InvokeRaises(r) ==
    /\ pc[r] = "Invoking"
    /\ arrived[r] = 0
    /\ \E exc \in InvokeExceptions(parsed[r][1].model) :
          sent' = [sent EXCEPT ![r] = <<ExceptHandler(exc)>>]
    /\ pc' = [pc EXCEPT ![r] = "Failed"]
    /\ UNCHANGED <<request, parsed, calls, arrived, result>>
    /\ GatewayFrame

\* response['body'].read(), line 35: one more chunk of the body arrives
ReadChunk(r) ==
    /\ pc[r] = "Invoking"
    /\ parsed[r][1].model \in BackendModels
    /\ arrived[r] < MaxChunks
    /\ arrived' = [arrived EXCEPT ![r] = @ + 1]
    /\ UNCHANGED <<pc, request, parsed, calls, result, sent>>
    /\ GatewayFrame

\* ... or the connection drops before the body is complete: read() raises
ReadDrops(r) ==
    /\ pc[r] = "Invoking"
    /\ parsed[r][1].model \in BackendModels
    /\ arrived[r] < MaxChunks
    /\ sent' = [sent EXCEPT ![r] = <<ExceptHandler("IncompleteRead")>>]
    /\ pc' = [pc EXCEPT ![r] = "Failed"]
    /\ UNCHANGED <<request, parsed, calls, arrived, result>>
    /\ GatewayFrame

\* lines 35-47: the body is complete, decoded and converted
ReturnResponse(r) ==
    /\ pc[r] = "Invoking"
    /\ arrived[r] = MaxChunks
    /\ \E res \in BackendPayloads :
          /\ result' = [result EXCEPT ![r] = <<res>>]
          /\ sent' = [sent EXCEPT ![r] =
                        <<[type |-> "ChatResponse",
                           body |-> ChatResponse(parsed[r][1], res)]>>]
    /\ pc' = [pc EXCEPT ![r] = "Completed"]
    /\ UNCHANGED <<request, parsed, calls, arrived>>
    /\ GatewayFrame

GatewayNext ==
    \E r \in Reqs :
        \/ Receive(r)
        \/ ValidateOk(r)
        \/ ValidateFail(r)
        \/ InvokeModel(r)
        \/ InvokeRaises(r)
        \/ ReadChunk(r)
        \/ ReadDrops(r)
        \/ ReturnResponse(r)

-----------------------------------------------------------------------------
(* Construction of the backend request alone *)

Roles    == {RoleUser, RoleAssistant, RoleTool}
Contents == {<<>>, <<"h", "i">>, <<"a", "\n", "b">>}
Messages == [role : Roles, content : Contents]

PromptInit ==
    /\ history \in SeqsUpTo(Messages, MaxMsgs)
    /\ built = <<>>

\* chat_completion's construction of the backend request, for a ChatRequest
\* with the messages of history
BuildPrompt ==
    /\ built = <<>>
    /\ built' = <<BackendRequest([ model       |-> SonnetId,
                                   messages    |-> history,
                                   temperature |-> DefaultTemperature,
                                   max_tokens  |-> DefaultMaxTokens ])>>
    /\ UNCHANGED <<history, pc, request, parsed, calls, arrived, result, sent>>
    /\ UNCHANGED <<run, mpc, env, retry_count, attempts, waited, cursor, tx,
                   store, inserted, log>>

-----------------------------------------------------------------------------
(* Provisioning: docker/open-webui/init.py *)

max_retries == 30

\* The environment of a run: ADMIN_EMAIL, and whether ADMIN_PASSWORD is set
DefaultAdmin == "admin@example.com"
OtherAdmin   == "root@example.com"
Envs == [email : {DefaultAdmin, OtherAdmin}, password : BOOLEAN]
Endpoint == "BEDROCK_GATEWAY_URL"

\* bedrock_models (lines 111-117)
bedrock_models ==
    << <<"Claude 3 Opus",   "anthropic.claude-3-opus-20240229-v1:0">>,
       <<"Claude 3 Sonnet", "anthropic.claude-3-sonnet-20240229-v1:0">>,
       <<"Claude 3 Haiku",  "anthropic.claude-3-haiku-20240307-v1:0">>,
       <<"Llama 2 70B",     "meta.llama2-70b-chat-v1">>,
       <<"Mistral 7B",      "mistral.mistral-7b-instruct-v0:2">> >>

\* settings (lines 127-133), in the dict's order
settings ==
    << <<"auth.enabled",      "true">>,
       <<"auth.default_role", "pending">>,
       <<"ui.default_model",  "anthropic.claude-3-sonnet-20240229-v1:0">>,
       <<"llm.api_base",      Endpoint>>,
       <<"llm.api_type",      "bedrock">> >>

EmptyTables == [tables |-> FALSE, users |-> <<>>, models |-> <<>>, settings |-> {}]

\* The statements of init_database during which the connection is open
InTransaction == {"schema", "check", "user", "models", "settings", "commit"}

\* A step of init.py leaves the other programs alone
InitFrame == UNCHANGED <<pc, request, parsed, calls, arrived, result, sent,
                         history, built>>

InitInit ==
    /\ run = 1
    /\ mpc = "start"
    /\ env = [email |-> DefaultAdmin, password |-> TRUE]
    /\ retry_count = 0
    /\ attempts = 0
    /\ waited = "none"
    /\ cursor = 0
    /\ tx = <<>>
    /\ store = EmptyTables
    /\ inserted = 0
    /\ log = <<>>

\* How a run of main ends: sys.exit(1) in the except clause, or a return
Finish(outcome) ==
    /\ mpc' = IF outcome = "failed" THEN "exit1" ELSE "exit0"
    /\ log' = Append(log, [email |-> env.email, outcome |-> outcome,
                           partial |-> inserted > 0])
    /\ tx' = <<>>

\* main starts (line 150) and enters wait_for_db (lines 23-24)
StartMain ==
    /\ mpc = "start"
    /\ env' \in Envs
    /\ retry_count' = 0
    /\ mpc' = "wait_for_db"
    /\ UNCHANGED <<run, attempts, waited, cursor, tx, store, inserted, log>>
    /\ InitFrame

\* Mutant: one retry too many
KeepWaitingOffByOne == retry_count <= max_retries

\* while retry_count < max_retries (line 26)
KeepWaiting == retry_count < max_retries

\* psycopg2.connect succeeds: return True (lines 28-37)
ConnectOk ==
    /\ mpc = "wait_for_db"
    /\ KeepWaiting
    /\ attempts' = attempts + 1
    /\ waited' = "True"
    /\ mpc' = "init_database"
    /\ UNCHANGED <<run, env, retry_count, cursor, tx, store, inserted, log>>
    /\ InitFrame

\* psycopg2.connect raises OperationalError (lines 38-41)
ConnectOperationalError ==
    /\ mpc = "wait_for_db"
    /\ KeepWaiting
    /\ attempts' = attempts + 1
    /\ retry_count' = retry_count + 1
    /\ UNCHANGED <<run, mpc, env, waited, cursor, tx, store, inserted, log>>
    /\ InitFrame

\* psycopg2.connect raises something else: it leaves wait_for_db and main
\* exits (lines 154-156)
ConnectOtherError ==
    /\ mpc = "wait_for_db"
    /\ KeepWaiting
    /\ attempts' = attempts + 1
    /\ waited' = "error"
    /\ Finish("failed")
    /\ UNCHANGED <<run, env, retry_count, cursor, store, inserted>>
    /\ InitFrame

\* raise Exception("Database not available after maximum retries") (line 43)
RaiseMaxRetries ==
    /\ mpc = "wait_for_db"
    /\ ~KeepWaiting
    /\ waited' = "max_retries"
    /\ Finish("failed")
    /\ UNCHANGED <<run, env, retry_count, attempts, cursor, store, inserted>>
    /\ InitFrame

\* init_database: psycopg2.connect, conn.cursor (lines 47-55).  The
\* connection opens a transaction that sees the committed tables.  The
\* locals of wait_for_db are gone.
DbConnect ==
    /\ mpc = "init_database"
    /\ tx' = <<store>>
    /\ mpc' = "schema"
    /\ retry_count' = 0
    /\ attempts' = 0
    /\ UNCHANGED <<run, env, waited, cursor, store, inserted, log>>
    /\ InitFrame

\* The database goes away under init_database: the statement raises, main
\* exits, and the open transaction is never committed.
DbError ==
    /\ mpc \in InTransaction \cup {"init_database"}
    /\ Finish("failed")
    /\ UNCHANGED <<run, env, retry_count, attempts, waited, cursor, store,
                   inserted>>
    /\ InitFrame

\* CREATE TABLE IF NOT EXISTS users, models, settings (lines 60-91)
CreateSchema ==
    /\ mpc = "schema"
    /\ tx' = <<[tx[1] EXCEPT !.tables = TRUE]>>
    /\ mpc' = "check"
    /\ UNCHANGED <<run, env, retry_count, attempts, waited, cursor, store,
                   inserted, log>>
    /\ InitFrame

\* SELECT COUNT(*) FROM users WHERE email = ADMIN_EMAIL (line 94)
AdminCount ==
    Cardinality({i \in 1..Len(tx[1].users) : tx[1].users[i].email = env.email})

\* Already initialized: conn.close() and return (lines 95-98)
SkipInitialized ==
    /\ mpc = "check"
    /\ AdminCount > 0
    /\ Finish("skipped")
    /\ UNCHANGED <<run, env, retry_count, attempts, waited, cursor, store,
                   inserted>>
    /\ InitFrame

ProceedToSeed ==
    /\ mpc = "check"
    /\ ~(AdminCount > 0)
    /\ mpc' = "user"
    /\ UNCHANGED <<run, env, retry_count, attempts, waited, cursor, tx, store,
                   inserted, log>>
    /\ InitFrame

\* Mutant: the connection is in autocommit mode, the user row is committed
\* as soon as it is inserted
InsertUserAutocommit ==
    /\ mpc = "user"
    /\ env.password
    /\ AdminCount = 0
    /\ tx' = <<[tx[1] EXCEPT !.users =
                  Append(@, [email |-> env.email, name |-> "Administrator",
                             role |-> "admin"])]>>
    /\ store' = tx'[1]
    /\ inserted' = inserted + 1
    /\ cursor' = 1
    /\ mpc' = "models"
    /\ UNCHANGED <<run, env, retry_count, attempts, waited, log>>
    /\ InitFrame

\* bcrypt.hashpw and INSERT INTO users (lines 102-107)
InsertUser ==
    /\ mpc = "user"
    /\ env.password
    /\ AdminCount = 0
    /\ tx' = <<[tx[1] EXCEPT !.users =
                  Append(@, [email |-> env.email, name |-> "Administrator",
                             role |-> "admin"])]>>
    /\ inserted' = inserted + 1
    /\ cursor' = 1
    /\ mpc' = "models"
    /\ UNCHANGED <<run, env, retry_count, attempts, waited, store, log>>
    /\ InitFrame

\* ADMIN_PASSWORD is not set (None.encode raises), or the email is taken
\* (users.email is UNIQUE): nothing is inserted and main exits
InsertUserRaises ==
    /\ mpc = "user"
    /\ ~env.password \/ AdminCount > 0
    /\ Finish("failed")
    /\ UNCHANGED <<run, env, retry_count, attempts, waited, cursor, store,
                   inserted>>
    /\ InitFrame

\* One turn of the loop over bedrock_models (lines 119-123)
InsertModel ==
    /\ mpc = "models"
    /\ tx' = <<[tx[1] EXCEPT !.models =
                  Append(@, [name     |-> bedrock_models[cursor][1],
                             model_id |-> bedrock_models[cursor][2],
                             api_type |-> "bedrock",
                             api_base |-> Endpoint])]>>
    /\ inserted' = inserted + 1
    /\ IF cursor < Len(bedrock_models)
       THEN cursor' = cursor + 1 /\ mpc' = mpc
       ELSE cursor' = 1 /\ mpc' = "settings"
    /\ UNCHANGED <<run, env, retry_count, attempts, waited, store, log>>
    /\ InitFrame

\* INSERT ... ON CONFLICT (key) DO UPDATE SET value = EXCLUDED.value
Upsert(rows, key, value) ==
    {row \in rows : row.key # key} \cup {[key |-> key, value |-> value]}

\* One turn of the loop over settings (lines 135-140)
UpsertSetting ==
    /\ mpc = "settings"
    /\ tx' = <<[tx[1] EXCEPT !.settings =
                  Upsert(@, settings[cursor][1], settings[cursor][2])]>>
    /\ inserted' = inserted + 1
    /\ IF cursor < Len(settings)
       THEN cursor' = cursor + 1 /\ mpc' = mpc
       ELSE cursor' = 0 /\ mpc' = "commit"
    /\ UNCHANGED <<run, env, retry_count, attempts, waited, store, log>>
    /\ InitFrame

\* conn.commit(), close, return (lines 142-146, 153)
Commit ==
    /\ mpc = "commit"
    /\ store' = tx[1]
    /\ Finish("committed")
    /\ UNCHANGED <<run, env, retry_count, attempts, waited, cursor, inserted>>
    /\ InitFrame

\* The script is run again (a container restart)
Restart ==
    /\ mpc \in {"exit0", "exit1"}
    /\ run < MaxRuns
    /\ run' = run + 1
    /\ mpc' = "start"
    /\ retry_count' = 0
    /\ attempts' = 0
    /\ waited' = "none"
    /\ inserted' = 0
    /\ cursor' = 0
    /\ UNCHANGED <<env, tx, store, log>>
    /\ InitFrame

-----------------------------------------------------------------------------
(* Properties of the gateway *)

Terminal == {"Completed", "Failed"}
Body(r)  == request[r][1]
Streaming(r) == "stream" \in DOMAIN Body(r) /\ Body(r)["stream"] = TRUE

\* The identifiers some adapter would claim: those of the model catalog
ClaimedModels == BackendModels

\* C1: a request whose model identifier no adapter claims ends with
\* UnknownModelError, and no backend call is ever made for it.
C1_UnknownModelNeverInvoked ==
    \A r \in Reqs :
        (pc[r] # "Idle" /\ Body(r)["model"] \notin ClaimedModels) =>
            /\ calls[r] = <<>>
            /\ pc[r] \in Terminal =>
                  /\ pc[r] = "Failed"
                  /\ sent[r][1].body.kind \in {"UnknownModelError", "ValidationError"}

\* The canonical schema's constraints on a body that has its messages
CanonicalRoles == {<<"s", "y", "s", "t", "e", "m">>, RoleUser, RoleAssistant}
SchemaInvalid(raw) ==
    \/ raw["messages"] = <<>>
    \/ \E i \in 1..Len(raw["messages"]) : raw["messages"][i].role \notin CanonicalRoles
    \/ "temperature" \in DOMAIN raw /\ (raw["temperature"] < 0 \/ raw["temperature"] > 20)
    \/ "max_tokens" \in DOMAIN raw /\ raw["max_tokens"] <= 0

\* C2: a body with no messages, an unrecognized role, a temperature out of
\* bounds or max_tokens <= 0 yields no ChatRequest and no backend call.
C2_InvalidRequestRejected ==
    \A r \in Reqs :
        (pc[r] # "Idle" /\ "messages" \in DOMAIN Body(r) /\ SchemaInvalid(Body(r))) =>
            /\ parsed[r] = <<>>
            /\ calls[r] = <<>>
            /\ pc[r] \in Terminal => sent[r][1].body.kind = "ValidationError"

\* Where the i-th message starts in a prompt that holds every message of h
\* once, in order, one per line
RECURSIVE StartOf(_, _)
StartOf(h, i) ==
    IF i = 1 THEN 1
    ELSE StartOf(h, i - 1) + Len(h[i - 1].role) + 2 + Len(h[i - 1].content) + 1

HoldsAt(p, at, text) ==
    /\ at + Len(text) - 1 <= Len(p)
    /\ \A j \in 1..Len(text) : p[at + j - 1] = text[j]

EncodesInOrder(h, p) ==
    /\ \A i \in 1..Len(h) :
          LET at == StartOf(h, i) IN
          /\ HoldsAt(p, at, h[i].role)
          /\ HoldsAt(p, at + Len(h[i].role), <<":", " ">>)
          /\ HoldsAt(p, at + Len(h[i].role) + 2, h[i].content)
          /\ i < Len(h) => HoldsAt(p, StartOf(h, i + 1) - 1, <<"\n">>)
    /\ Len(p) = IF h = <<>> THEN 0 ELSE StartOf(h, Len(h) + 1) - 2

\* C3: the prompt of the backend request holds all N messages of the
\* request, each once and in the request's order.
C3_PromptKeepsEveryMessageInOrder ==
    built # <<>> => EncodesInOrder(history, built[1].body.prompt)

C3_Witness ==
    /\ built # <<>>
    /\ Len(history) = 2
    /\ history[1] # history[2]
    /\ \E i \in 1..2 : "\n" \in {history[i].content[j] : j \in 1..Len(history[i].content)}

\* The canonical finish_reason of a backend stop reason
CanonicalFinishReason(sr) ==
    CASE sr \in {"end_turn", "stop_sequence"} -> "stop"
      [] sr = "max_tokens"                    -> "length"
      [] sr = "content_filtered"              -> "content_filter"
      [] OTHER                                -> "stop"

\* C4: the finish_reason returned is the canonical value of the backend's
\* stop reason; a stop reason with no mapping gives "stop".
C4_FinishReasonFollowsBackend ==
    \A r \in Reqs :
        pc[r] = "Completed" =>
            sent[r][1].body.choices[1].finish_reason
                = CanonicalFinishReason(result[r][1]["stop_reason"])

\* C5: the identifier passed to the backend and the model of the response
\* are the identifier the caller supplied.
C5_ModelIdentifierUnchanged ==
    \A r \in Reqs :
        /\ \A i \in 1..Len(calls[r]) : calls[r][i].modelId = Body(r)["model"]
        /\ pc[r] = "Completed" => sent[r][1].body.model = Body(r)["model"]

C5_Witness ==
    /\ \E r \in Reqs : pc[r] = "Completed" /\ Len(calls[r]) = 1
    /\ \E r \in Reqs : pc[r] = "Failed" /\ Len(calls[r]) = 1
                       /\ Body(r)["model"] = UnknownId

\* C6: at most one backend invocation per request, also when it failed.
C6_AtMostOneInvocation ==
    \A r \in Reqs : Len(calls[r]) <= 1

C6_Witness ==
    \E r \in Reqs :
        /\ pc[r] = "Failed"
        /\ Len(calls[r]) = 1
        /\ sent[r][1].body.kind = "TransportError"

\* The transitions of the per-request state machine
PipelineSteps ==
    { <<"Idle", "Received">>,
      <<"Received", "Validated">>, <<"Received", "Failed">>,
      <<"Validated", "AdapterResolved">>, <<"Validated", "Failed">>,
      <<"AdapterResolved", "Invoking">>,
      <<"Invoking", "Completed">>, <<"Invoking", "Failed">> }

\* C7: a request moves only along Received, Validated, AdapterResolved,
\* Invoking to Completed or Failed, skipping no stage; a terminal state is
\* never left; a step of one request changes no other request.
C7_PipelineOrder ==
    [][\A r \in Reqs :
          pc'[r] # pc[r] =>
              /\ <<pc[r], pc'[r]>> \in PipelineSteps
              /\ \A q \in Reqs \ {r} :
                    /\ pc'[q] = pc[q] /\ parsed'[q] = parsed[q]
                    /\ calls'[q] = calls[q] /\ sent'[q] = sent[q]]_vars

ChatDeltas(r) == SelectSeq(sent[r], LAMBDA e : e.type = "ChatDelta")

\* C8: a streaming request whose connection drops after k chunks delivers
\* exactly k ChatDelta events and then StreamInterruptedError.
C8_InterruptedStreamDeliversDeltas ==
    \A r \in Reqs :
        (pc[r] = "Failed" /\ calls[r] # <<>> /\ Streaming(r) /\ arrived[r] > 0) =>
            /\ Len(ChatDeltas(r)) = arrived[r]
            /\ sent[r][Len(sent[r])].body.kind = "StreamInterruptedError"
            /\ \A i \in 1..Len(sent[r]) : sent[r][i].type # "ChatResponse"

-----------------------------------------------------------------------------
(* Properties of init.py *)

C9_Safety ==
    \* never more than max_retries connection attempts
    /\ attempts <= max_retries
    \* wait_for_db has returned True: the attempt that succeeded was the last
    \* one made, after retry_count failures
    /\ mpc = "init_database" => (waited = "True" /\ attempts = retry_count + 1)
    \* the maximum-retries exception: all max_retries attempts were made and
    \* each failed with an operational error ...
    /\ waited = "max_retries" =>
          (retry_count = max_retries /\ attempts = max_retries /\ mpc = "exit1")
    \* ... and max_retries such failures end in that exception and no other way
    /\ retry_count = max_retries =>
          (attempts = max_retries /\ (mpc = "wait_for_db" \/ waited = "max_retries"))
    \* init_database runs only after wait_for_db returned True
    /\ (mpc \in InTransaction \cup {"init_database"} \/ tx # <<>> \/ inserted > 0)
          => waited = "True"

\* C9: wait_for_db ends after at most 30 connection attempts: True right
\* after the first attempt that succeeds, the maximum-retries exception
\* exactly when all 30 attempts failed with an operational error; main runs
\* init_database only after wait_for_db returned True.
C9_WaitForDbTerminates ==
    /\ []C9_Safety
    /\ (mpc = "wait_for_db") ~> (mpc # "wait_for_db")

C9_Witness ==
    /\ mpc = "init_database"
    /\ waited = "True"
    /\ retry_count = max_retries - 1
    /\ attempts = max_retries

Committed == {i \in 1..Len(log) : log[i].outcome = "committed"}

SettingKeys == {settings[i][1] : i \in 1..Len(settings)}

SameEmailSoFar == \A i \in 1..Len(log) : log[i].email = env.email

NoRows(t) == t.users = <<>> /\ t.models = <<>> /\ t.settings = {}

SeededOnce(t, email) ==
    /\ Len(t.users) = 1
    /\ t.users[1].email = email /\ t.users[1].role = "admin"
    /\ Len(t.models) = 5
    /\ {t.models[i].model_id : i \in 1..5} = BackendModels
    /\ \A key \in SettingKeys :
          Cardinality({row \in t.settings : row.key = key}) = 1
    /\ Cardinality(t.settings) = Cardinality(SettingKeys)

\* C10: once a run has committed, a later run with the same ADMIN_EMAIL
\* inserts nothing; with one ADMIN_EMAIL the store holds no rows or exactly
\* one admin row, the five catalog rows and one row per settings key; runs
\* that did not commit leave no row behind.
C10_SeedingIdempotent ==
    /\ (mpc # "start" /\ \E i \in Committed : i < run /\ log[i].email = env.email)
          => inserted = 0
    /\ SameEmailSoFar => (NoRows(store) \/ SeededOnce(store, env.email))
    /\ Len(store.users) = Cardinality(Committed)
    /\ Len(store.models) = 5 * Cardinality(Committed)
    /\ Committed = {} => NoRows(store)

C10_Witness ==
    /\ Len(log) = 3
    /\ SameEmailSoFar
    /\ log[1].outcome = "failed" /\ log[1].partial
    /\ log[2].outcome = "committed"
    /\ log[3].outcome = "skipped"
    /\ SeededOnce(store, env.email)

-----------------------------------------------------------------------------
(* Specifications *)

PromptIdle == history = <<>> /\ built = <<>>

Init == GatewayInit /\ PromptIdle /\ InitInit

Next == GatewayNext

Spec == Init /\ [][Next]_vars

InitPrompt == GatewayInit /\ PromptInit /\ InitInit

NextPrompt == BuildPrompt

SpecPrompt == InitPrompt /\ [][NextPrompt]_vars

NextInit ==
    \/ StartMain
    \/ ConnectOk
    \/ ConnectOperationalError
    \/ ConnectOtherError
    \/ RaiseMaxRetries
    \/ DbConnect
    \/ DbError
    \/ CreateSchema
    \/ SkipInitialized
    \/ ProceedToSeed
    \/ InsertUser
    \/ InsertUserRaises
    \/ InsertModel
    \/ UpsertSetting
    \/ Commit
    \/ Restart

\* The script keeps running: connect returns or raises, sleep returns
SpecInit == Init /\ [][NextInit]_vars /\ WF_vars(NextInit)

=============================================================================
